---- MODULE Spec2Model ----
(***************************************************************************)
(* Feedmaster Bluesky achievement bot: the polling loop of bot.py.         *)
(*                                                                         *)
(* State: the fields of FeedmasterBlueskyBot, the cursor file, the wall    *)
(* clock (seconds since the process started) and the position of run().   *)
(* Time advances where the code sleeps: asyncio.sleep(2) after a post, the *)
(* poll sleep and the error backoff; a network call takes no time on this  *)
(* clock.                                                                  *)
(***************************************************************************)
EXTENDS Integers, Sequences, FiniteSets, TLC

\* ------------------------------------------------------------------ bounds
MaxCycles == 3          \* cycles of process_achievements explored
MaxBatch == 2           \* events the source returns in one response
MaxSelection == 3       \* events of one response when a single cycle is explored
MaxRenders == 2         \* calls of generate_achievement_card explored

\* ------------------------------------------------------- program constants
MinPollInterval == 10       \* bot.py:47
MaxPostsPerHourLimit == 60  \* bot.py:49
DefaultPollInterval == 10   \* bot.py:43
DefaultMaxPostsPerHour == 30 \* bot.py:44
HourSeconds == 3600         \* bot.py:72, bot.py:460  timedelta(hours=1)
PostDelaySeconds == 2       \* bot.py:548
BackoffSeconds == 60        \* bot.py:584
DoubleMantissaBits == 52    \* IEEE-754 binary64, the float of bot.py:53

\* sentinels of an event's rarity_percentage
PctAbsent == -1   \* the key is not in the JSON object
PctNull == -2     \* the key is there and holds null
\* sentinel of rarity_tier (absent and null behave alike behind .get)
TierNone == "None"

Max(a, b) == IF a >= b THEN a ELSE b

\* --------------------------------------------------------- the environment
Unset == [k |-> "unset", v |-> 0]
Text == [k |-> "text", v |-> 0]     \* a value int() cannot parse
IntVal(n) == [k |-> "int", v |-> n]

\* what the variables of the environment can hold at startup
PollSettings == {Unset, Text, IntVal(0), IntVal(9), IntVal(10), IntVal(29), IntVal(30),
                 IntVal(60), IntVal(120)}
CapSettings == {Unset, Text, IntVal(0 - 1), IntVal(0), IntVal(1), IntVal(2), IntVal(30),
                IntVal(60), IntVal(61)}
FeedSettings == {"", "1234,5555"}
TierSettings == {"Bronze", "Gold"}

\* discord is whether DISCORD_WEBHOOK_URL is set, as the configuration page
\* writes it (config_server.py:370)
Environments ==
  [poll : PollSettings, cap : CapSettings, user : BOOLEAN, did : BOOLEAN,
   pass : BOOLEAN, feeds : FeedSettings, min_tier : TierSettings, discord : BOOLEAN]

\* the environments whose whole run is explored
RunEnvironments ==
  [poll : {IntVal(9), IntVal(30), IntVal(120)}, cap : {IntVal(1), IntVal(2), IntVal(61)},
   user : BOOLEAN, did : {FALSE}, pass : BOOLEAN, feeds : FeedSettings,
   min_tier : {"Bronze"}, discord : {TRUE}]

\* the names of the table of bot.py:79-87, lowest first
TierNames == <<"Bronze", "Silver", "Gold", "Platinum", "Diamond", "Legendary", "Mythic">>

\* MIN_RARITY_TIER: a name of the table, a name that is not in it, or empty
MinTierSettings == { TierNames[i] : i \in DOMAIN TierNames } \cup {"Shiny", ""}

\* the environments of the runs of one cycle: every minimum tier, with
\* a per-interval cap above the batch (60, 60) and one of 2 with an hourly cap
\* of 1 (120, 1)
SelectionEnvironments ==
  { [poll |-> IntVal(c[1]), cap |-> IntVal(c[2]), user |-> TRUE, did |-> FALSE, pass |-> TRUE,
     feeds |-> "1234,5555", min_tier |-> t, discord |-> FALSE] :
      c \in {<<60, 60>>, <<120, 1>>}, t \in MinTierSettings }

\* os.getenv(name, default) followed by int(): "raise" when int() raises
GetInt(setting, default) ==
  CASE setting.k = "unset" -> [ok |-> TRUE, v |-> default]
    [] setting.k = "int" -> [ok |-> TRUE, v |-> setting.v]
    [] OTHER -> [ok |-> FALSE, v |-> 0]

\* os.getenv('FEED_IDS', '').split(',')
SplitFeedIds(s) == IF s = "" THEN <<"">> ELSE <<"1234", "5555">>

\* ------------------------------------------- max_posts_per_interval (float)
RECURSIVE DoubleMod(_, _, _)
\* (acc * 2^s) mod p
DoubleMod(acc, s, p) == IF s = 0 THEN acc % p ELSE DoubleMod((acc * 2) % p, s - 1, p)

RECURSIVE Pow2(_)
Pow2(n) == IF n = 0 THEN 1 ELSE 2 * Pow2(n - 1)

RECURSIVE FloorLog2(_)
\* floor(log2(k)) for k >= 1
FloorLog2(k) == IF k < 2 THEN 0 ELSE 1 + FloorLog2(k \div 2)

RECURSIVE Log2Ratio(_, _, _)
\* floor(log2(num / p)) for positive integers, searched from guess e
Log2Ratio(num, p, e) ==
  IF e >= 0
    THEN IF p * Pow2(e + 1) <= num THEN Log2Ratio(num, p, e + 1)
         ELSE IF p * Pow2(e) > num THEN Log2Ratio(num, p, e - 1) ELSE e
    ELSE IF num * Pow2(-e) < p THEN Log2Ratio(num, p, e - 1) ELSE e

\* polls_per_hour = 60 / p in binary64: the mantissa is 60 * 2^s / p rounded
\* to nearest; the result is p * mantissa - 60 * 2^s, positive when the
\* quotient was rounded up, negative or zero when it was rounded down.
PollsPerHourRounding(p) ==
  LET e == Log2Ratio(60, p, 0)
      s == DoubleMantissaBits - e
      r == DoubleMod(60 % p, s, p)
  IN  [e |-> e, d |-> IF 2 * r > p THEN p - r ELSE 0 - r]

\* int(n / polls_per_hour) with polls_per_hour = 60 / p, both divisions in
\* binary64 and int() truncating toward zero.  When n * p / 60 is not an
\* integer the two roundings (relative error below 2^-52) cannot cross an
\* integer; when it is an integer k, the quotient n / fl(60/p) lies below k
\* exactly when fl(60/p) was rounded up, and it rounds to the double below k
\* exactly when it is beyond the midpoint k - ulp/2.
TruncatedQuotient(n, p) ==
  IF n <= 0 THEN 0
  ELSE IF (n * p) % 60 # 0 THEN (n * p) \div 60
  ELSE LET k == (n * p) \div 60
           rnd == PollsPerHourRounding(p)
           a == FloorLog2(k)
           j == IF k = Pow2(a) THEN a - 2 - rnd.e ELSE a - 1 - rnd.e
           below == IF j >= 0 THEN 60 * Pow2(j) < k * rnd.d
                    ELSE 60 < k * rnd.d * Pow2(-j)
       IN  IF rnd.d > 0 /\ below THEN k - 1 ELSE k

\* bot.py:53-54
MaxPostsPerInterval(cap, poll) == Max(1, TruncatedQuotient(cap, poll))

\* ------------------------------------------------------------- the events
\* The upstream feed: events are immutable and ids are unique.  handle is
\* whether the JSON object has the key user_handle.
Event(i, t, p, h) == [id |-> i, rarity_tier |-> t, rarity_percentage |-> p, handle |-> h]

Upstream ==
  { Event(1, "Bronze", 50, TRUE),
    Event(2, TierNone, PctAbsent, TRUE),
    Event(3, "Gold", 5, TRUE),
    Event(4, "Gold", 7, FALSE),
    Event(5, "Silver", PctAbsent, TRUE),
    Event(6, "Gold", PctNull, TRUE) }

RECURSIVE SeqsOver(_, _)
\* the sequences of at most n distinct elements of S
SeqsOver(S, n) ==
  IF n = 0 THEN {<<>>}
  ELSE LET shorter == SeqsOver(S, n - 1)
       IN  shorter \cup { Append(q, x) : q \in shorter, x \in S }

\* the source lists distinct events, oldest first or newest first
Listed(q) ==
  \/ \A i \in 1..(Len(q) - 1) : q[i].id < q[i + 1].id
  \/ \A i \in 1..(Len(q) - 1) : q[i].id > q[i + 1].id

Batches == { q \in SeqsOver(Upstream, MaxBatch) : Listed(q) }

\* The events of the runs of one cycle: two of equal percentage, one whose
\* percentage is 100 and one whose percentage is missing, events without a
\* tier, a tier that is not in the table, a null percentage, no user_handle
SelectionUpstream ==
  { Event(1, "Bronze", 20, TRUE),
    Event(2, "Bronze", 20, TRUE),
    Event(3, "Gold", 5, TRUE),
    Event(4, TierNone, PctAbsent, TRUE),
    Event(5, "Silver", 100, FALSE),
    Event(6, "Shiny", PctAbsent, TRUE),
    Event(7, "Gold", PctNull, TRUE),
    Event(8, TierNone, 1, TRUE) }

\* one event of every tier the JSON can carry
TierSamples ==
  { Event(9, t, 50, TRUE) : t \in MinTierSettings \cup {TierNone} }

Distinct(q) == \A i, j \in 1..Len(q) : i # j => q[i].id # q[j].id

\* the source lists distinct events, in any order
SelectionBatches ==
  { q \in SeqsOver(SelectionUpstream, MaxSelection) : Distinct(q) }
  \cup { <<a>> : a \in TierSamples }

SelectionResponses == { [kind |-> "ok", achievements |-> b] : b \in SelectionBatches }

\* what the HTTP exchange of get_recent_achievements can come to
Responses ==
  { [kind |-> k, achievements |-> <<>>] : k \in {"transport_error", "http_error", "bad_json"} }
  \cup { [kind |-> "ok", achievements |-> b] : b \in Batches }

\* bot.py:130-159: any exception inside the try gives the empty list
GetRecentAchievements(resp) ==
  IF resp.kind = "ok" THEN resp.achievements ELSE <<>>

\* bot.py:79-87 and the .get(tier, 0) of lines 170-171
RarityOrder(t) ==
  CASE t = "Bronze" -> 0 [] t = "Silver" -> 1 [] t = "Gold" -> 2
    [] t = "Platinum" -> 3 [] t = "Diamond" -> 4 [] t = "Legendary" -> 5
    [] t = "Mythic" -> 6 [] OTHER -> 0

\* > in place of >=: an event of the minimum tier itself is refused
ShouldPostAboveMin(a, min_tier) ==
  IF a.rarity_tier = TierNone \/ a.rarity_tier = "" THEN FALSE
  ELSE RarityOrder(a.rarity_tier) > RarityOrder(min_tier)

\* the test of line 166 left out: a missing tier ranks like an unknown one
ShouldPostRanksNone(a, min_tier) ==
  RarityOrder(a.rarity_tier) >= RarityOrder(min_tier)

\* bot.py:161-173
ShouldPostAchievement(a, min_tier) ==
  IF a.rarity_tier = TierNone \/ a.rarity_tier = "" THEN FALSE
  ELSE RarityOrder(a.rarity_tier) >= RarityOrder(min_tier)

\* key of the sort of bot.py:534: x.get('rarity_percentage', 100)
SortKey(a) == IF a.rarity_percentage = PctAbsent THEN 100 ELSE a.rarity_percentage

RECURSIVE InsertBeforeEqual(_, _)
\* a into the sorted sequence q, before the elements of equal key
InsertBeforeEqual(a, q) ==
  IF q = <<>> THEN <<a>>
  ELSE IF SortKey(Head(q)) < SortKey(a) THEN <<Head(q)>> \o InsertBeforeEqual(a, Tail(q))
  ELSE <<a>> \o q

RECURSIVE InsertByKey(_, _)
\* a into the sorted sequence q, after the elements whose key is not greater
InsertByKey(a, q) ==
  IF q = <<>> THEN <<a>>
  ELSE IF SortKey(Head(q)) <= SortKey(a) THEN <<Head(q)>> \o InsertByKey(a, Tail(q))
  ELSE <<a>> \o q

\* the sort left out: the selection is taken in fetch order
SortByRarityFetchOrder(q) == q

RECURSIVE SortByRarity(_)
\* list.sort(key=...): stable, ascending
SortByRarity(q) ==
  IF q = <<>> THEN <<>>
  ELSE InsertByKey(q[Len(q)], SortByRarity(SubSeq(q, 1, Len(q) - 1)))

\* list.sort raises TypeError when it has to compare a None key
SortRaises(q) == Len(q) >= 2 /\ \E i \in 1..Len(q) : q[i].rarity_percentage = PctNull

\* the filter left out
EligibleUnfiltered(batch, min_tier) == batch

\* bot.py:527-531
Eligible(batch, min_tier) == SelectSeq(batch, LAMBDA a : ShouldPostAchievement(a, min_tier))

\* the slice left out
TruncateNone(q, n) == q

\* bot.py:537  eligible_achievements[:max_posts_per_interval]
Truncate(q, n) == SubSeq(q, 1, IF Len(q) < n THEN Len(q) ELSE n)

\* bot.py:541-543: format_message formats the percentage with :.2f (TypeError
\* on None) and the log line indexes achievement['user_handle'] (KeyError)
FormatRaises(a) == a.rarity_percentage = PctNull \/ ~a.handle

RECURSIVE MaxId(_)
\* bot.py:555  max(achievement.get('id', 0) for achievement in achievements)
MaxId(q) == IF Len(q) = 1 THEN q[1].id ELSE Max(q[1].id, MaxId(Tail(q)))

\* the guard of line 556 left out: the cursor follows the batch down
NewCursorUnguarded(cursor, batch) ==
  IF batch = <<>> THEN cursor ELSE MaxId(batch)

\* max(..., default=0) in place of the guard of line 554: an empty batch rewinds
NewCursorRewind(cursor, batch) ==
  IF batch = <<>> THEN 0
  ELSE IF MaxId(batch) > cursor THEN MaxId(batch) ELSE cursor

\* the cursor is never advanced
NewCursorStays(cursor, batch) == cursor

\* bot.py:554-557: the cursor after a cycle that fetched batch
NewCursor(cursor, batch) ==
  IF batch = <<>> THEN cursor
  ELSE IF MaxId(batch) > cursor THEN MaxId(batch) ELSE cursor

\* the boundary is advanced, the count is kept
RateWindowKeepsCount(count, reset, t) ==
  IF t >= reset THEN [count |-> count, reset |-> t + HourSeconds]
  ELSE [count |-> count, reset |-> reset]

\* the boundary is advanced by whole hours from the old boundary
RateWindowClockHour(count, reset, t) ==
  IF t >= reset THEN [count |-> 0, reset |-> reset + HourSeconds]
  ELSE [count |-> count, reset |-> reset]

\* bot.py:457-460: the rate window as post_to_bluesky sees it at time t
RateWindow(count, reset, t) ==
  IF t >= reset THEN [count |-> 0, reset |-> t + HourSeconds]
  ELSE [count |-> count, reset |-> reset]

\* > in place of >=
RateLimitedOffByOne(count, cap) == count > cap

\* bot.py:462  the refusal of the hourly cap
RateLimited(count, cap) == count >= cap

\* what becomes of the card of a post: generate_achievement_card gives a file
\* that upload_blob takes, or it gives None (bot.py:449-451), or upload_blob
\* raises (bot.py:499-501)
CardOutcomes == {"embedded", "render_failed", "upload_failed"}

\* a call of post_to_bluesky that got past the rate check: what became of the
\* card, and whether the destination takes the post
Call(card, sent) == [card |-> card, sent |-> sent]
NoCall == Call("none", FALSE)

\* an exception while the card is rendered or uploaded leaves the call through
\* the except of line 519
PostToBlueskyCardFails(count, reset, cap, t, card, sent) ==
  LET w == RateWindow(count, reset, t)
  IN  IF RateLimited(w.count, cap)
        THEN [result |-> "refused", count |-> w.count, reset |-> w.reset, call |-> NoCall]
        ELSE IF sent /\ card = "embedded"
          THEN [result |-> "posted", count |-> w.count + 1, reset |-> w.reset,
                call |-> Call(card, sent)]
          ELSE [result |-> "failed", count |-> w.count, reset |-> w.reset,
                call |-> Call(card, sent)]

\* a send that fails is counted like one that went through
PostToBlueskyCountsFailure(count, reset, cap, t, card, sent) ==
  LET w == RateWindow(count, reset, t)
  IN  IF RateLimited(w.count, cap)
        THEN [result |-> "refused", count |-> w.count, reset |-> w.reset, call |-> NoCall]
        ELSE [result |-> IF sent THEN "posted" ELSE "failed", count |-> w.count + 1,
              reset |-> w.reset, call |-> Call(card, sent)]

\* a card that cannot be rendered makes the call fail
PostToBlueskyRenderFails(count, reset, cap, t, card, sent) ==
  LET w == RateWindow(count, reset, t)
  IN  IF RateLimited(w.count, cap)
        THEN [result |-> "refused", count |-> w.count, reset |-> w.reset, call |-> NoCall]
        ELSE IF sent /\ card # "render_failed"
          THEN [result |-> "posted", count |-> w.count + 1, reset |-> w.reset,
                call |-> Call(card, sent)]
          ELSE [result |-> "failed", count |-> w.count, reset |-> w.reset,
                call |-> Call(card, sent)]

\* bot.py:466-504: what the post carries: the card, or nothing when the card
\* could not be rendered or uploaded
Embed(card) == IF card = "embedded" THEN "card" ELSE "none"

\* bot.py:453-521: post_to_bluesky called at time t; card is what becomes of
\* the card and sent is whether send_post goes through.  A card that cannot be
\* rendered or uploaded only removes the embed (lines 466-504), and an
\* exception of send_post is caught (519-521).
PostToBluesky(count, reset, cap, t, card, sent) ==
  LET w == RateWindow(count, reset, t)
  IN  IF RateLimited(w.count, cap)
        THEN [result |-> "refused", count |-> w.count, reset |-> w.reset, call |-> NoCall]
        ELSE IF sent
          THEN [result |-> "posted", count |-> w.count + 1, reset |-> w.reset,
                call |-> Call(card, sent)]
          ELSE [result |-> "failed", count |-> w.count, reset |-> w.reset,
                call |-> Call(card, sent)]

\* continue in place of break
LoopControlContinue(result, index, n) ==
  [next_index |-> index + 1, pc |-> IF index + 1 > n THEN "finish" ELSE "publish"]

\* bot.py:545-551: the loop goes on after True and breaks after False
LoopControl(result, index, n) ==
  IF result = "posted"
    THEN [next_index |-> index + 1, pc |-> IF index + 1 > n THEN "finish" ELSE "publish"]
    ELSE [next_index |-> index, pc |-> "finish"]

\* ------------------------------------------------------------ the cursor file
\* A text is a sequence of one-character strings.
Digits == <<"0", "1", "2", "3", "4", "5", "6", "7", "8", "9">>
IsDigit(c) == \E d \in 1..10 : Digits[d] = c
DigitValue(c) == (CHOOSE d \in 1..10 : Digits[d] = c) - 1
Whitespace == {" ", "\n", "\t"}

\* str.strip()
RECURSIVE StripLeft(_)
StripLeft(t) ==
  IF t # <<>> /\ Head(t) \in Whitespace THEN StripLeft(Tail(t)) ELSE t

RECURSIVE StripRight(_)
StripRight(t) ==
  IF t # <<>> /\ t[Len(t)] \in Whitespace
    THEN StripRight(SubSeq(t, 1, Len(t) - 1)) ELSE t

Strip(t) == StripRight(StripLeft(t))

\* the value of a run of decimal digits
RECURSIVE DecimalValue(_)
DecimalValue(t) ==
  IF t = <<>> THEN 0
  ELSE 10 * DecimalValue(SubSeq(t, 1, Len(t) - 1)) + DigitValue(t[Len(t)])

\* int(text) of Python: blanks around, an optional sign, then one digit at
\* least and digits only; ok is FALSE where int raises ValueError
ParseInt(text) ==
  LET t == Strip(text)
      signed == t # <<>> /\ Head(t) \in {"-", "+"}
      body == IF signed THEN Tail(t) ELSE t
      ok == body # <<>> /\ \A i \in 1..Len(body) : IsDigit(body[i])
  IN  [ok |-> ok,
       v |-> IF ~ok THEN 0
             ELSE IF signed /\ Head(t) = "-" THEN 0 - DecimalValue(body)
             ELSE DecimalValue(body)]

\* str(n) of an integer
RECURSIVE NatText(_)
NatText(n) ==
  IF n < 10 THEN <<Digits[n + 1]>> ELSE NatText(n \div 10) \o <<Digits[(n % 10) + 1]>>

Str(n) == IF n < 0 THEN <<"-">> \o NatText(0 - n) ELSE NatText(n)

\* /tmp/achievement_cursor.txt: absent, present but not readable, or a text
NoFile == [k |-> "absent", text |-> <<>>]
Unreadable == [k |-> "unreadable", text |-> <<>>]
TextFile(t) == [k |-> "text", text |-> t]
Garbage == TextFile(<<"x">>)

\* the cursor is written behind a label
StoredLabelled(n) == TextFile(<<"i", "d", "=">> \o Str(n))

\* what _save_cursor writes, bot.py:113-114
Stored(n) == TextFile(Str(n))

CursorFiles ==
  {NoFile, Unreadable, Garbage, Stored(2), TextFile(<<>>), TextFile(<<"\n">>),
   TextFile(<<" ", "4", "2", "\n">>), TextFile(<<"0", "7">>), TextFile(<<"-", "5">>),
   TextFile(<<"2", ".", "5">>), TextFile(<<"4", " ", "2">>), TextFile(<<"3", "x">>)}

\* a garbled file yields the digits it starts with
LoadCursorLeadingDigits(file) ==
  IF file.k = "text" /\ file.text # <<>> /\ IsDigit(Head(file.text))
    THEN DigitValue(Head(file.text)) ELSE 0

\* bot.py:100-108: the parsed content, 0 when the file is absent or when the
\* open, the read or int() raises
LoadCursor(file) ==
  IF file.k = "text" /\ ParseInt(Strip(file.text)).ok
    THEN ParseInt(Strip(file.text)).v ELSE 0

\* _save_cursor, bot.py:110-116: open(.., 'w') empties the file before the
\* write, so a save can fail with the file as it was (the open raised) or with
\* the file emptied (the write or the close raised); neither failure is raised
SaveOutcomes == {"saved", "open_failed", "write_failed"}

SaveCursor(file, id, outcome) ==
  CASE outcome = "saved" -> Stored(id)
    [] outcome = "open_failed" -> file
    [] outcome = "write_failed" -> TextFile(<<>>)

\* ---------------------------------------------------- fetch_url_metadata
\* bot.py:199
MaxRetries == 3

\* bot.py:286-287
TextLimit == 300

\* bot.py:249 and 251
DefaultTitle == <<"A", "c", "h", "i", "e", "v", "e", "m", "e", "n", "t", " ", "U", "n", "l", "o", "c", "k", "e", "d">>
DefaultDescription ==
  <<"V", "i", "e", "w", " ", "t", "h", "i", "s", " ", "a", "c", "h", "i", "e", "v", "e", "m", "e", "n", "t", " ", "o", "n", " ", "F", "e", "e", "d", "m", "a", "s", "t", "e", "r">>

\* the text of n characters c
Repeat(c, n) == [i \in 1..n |-> c]

\* The content of a tag of the page, written in the character c; the empty
\* text stands for a tag that is absent, has no content or an empty one, which
\* the tests of lines 226-245 do not tell apart.
TagTexts(c) ==
  {<<>>, <<" ">>, <<c>>, <<"\n", c, " ">>, Repeat(c, TextLimit + 1),
   <<" ">> \o Repeat(c, TextLimit)}

\* how the og:image of the page fares, bot.py:253-277
ImageOutcomes == {"none", "download_failed", "not_image", "upload_failed", "uploaded"}

\* what one attempt meets: the get or raise_for_status raises, or a page
LoadOutcomes == {"loaded", "connect_error", "http_error"}

NoPage == [load |-> "none"]
FailedLoads == { [load |-> l] : l \in LoadOutcomes \ {"loaded"} }
Pages ==
  [load : {"loaded"}, og_title : TagTexts("T"), title_tag : TagTexts("t"),
   og_description : TagTexts("D"), desc_tag : TagTexts("d"), image : ImageOutcomes]

None == [k |-> "None"]
NotReturned == [k |-> "running"]

\* text[:n]
Take(text, n) == SubSeq(text, 1, IF Len(text) < n THEN Len(text) ELSE n)

\* the plain tag is looked at first
PickPlainFirst(structured, plain, default) ==
  LET first == IF plain # <<>> THEN Strip(plain) ELSE <<>>
      second == IF first = <<>> /\ structured # <<>> THEN Strip(structured) ELSE first
  IN  IF second = <<>> THEN default ELSE second

\* bot.py:225-251: the og content stripped when there is one, else the plain
\* tag stripped when the first gave nothing, else the default
Pick(structured, plain, default) ==
  LET first == IF structured # <<>> THEN Strip(structured) ELSE <<>>
      second == IF first = <<>> /\ plain # <<>> THEN Strip(plain) ELSE first
  IN  IF second = <<>> THEN default ELSE second

\* bot.py:253-277: the blob when the image was fetched, was an image and was
\* uploaded; every failure in between is caught at line 276
ImageBlob(image) == IF image = "uploaded" THEN [k |-> "blob"] ELSE None

\* bot.py:285-290; the url field is left out
Metadata(page) ==
  [k |-> "metadata",
   title |-> Take(Pick(page.og_title, page.title_tag, DefaultTitle), TextLimit),
   description |->
     Take(Pick(page.og_description, page.desc_tag, DefaultDescription), TextLimit),
   image_blob |-> ImageBlob(page.image)]

\* a failure of the image is raised out of the attempt
AttemptRaisesOnImage(page) ==
  page.load # "loaded" \/ page.image \in {"download_failed", "upload_failed"}

\* bot.py:201-290: what of an attempt reaches the handler of line 292
AttemptRaises(page) == page.load # "loaded"

\* the handler sleeps after the last attempt too
RetryWaitAlways(attempt) == <<Pow2(attempt)>>

\* bot.py:294-298: the sleep the handler makes after attempt number attempt
RetryWait(attempt) == IF attempt < MaxRetries - 1 THEN <<Pow2(attempt)>> ELSE <<>>

\* ------------------------------------------------- generate_achievement_card
\* The events a card is made for. An empty user_display_name stands for a null
\* or empty one and an empty user_avatar_url for a null, absent or empty one.
CardEvents ==
  [user_avatar_url : {<<>>, <<"u">>},
   achievement_name : {<<"n">>, <<"n", ":", "m">>},
   user_display_name : {<<>>, <<"b">>, <<"m", ":", "b">>},
   user_handle : {<<"b">>},
   rarity_tier : {"Bronze", "Gold", "Shiny"}]

\* bot.py:343
UserName(a) ==
  IF a.user_display_name # <<>> THEN a.user_display_name ELSE a.user_handle

CardVersion == <<"v", "1", "6", "_", "P", "E", "R", "F", "E", "C", "T">>

\* bot.py:349
CardContent(a) ==
  a.user_avatar_url \o <<":">> \o a.achievement_name \o <<":">> \o UserName(a)
    \o <<":">> \o CardVersion

\* hashlib.md5(..).hexdigest(), taken as free of collisions: the digest stands
\* for the text it was made from
Md5(text) == text

\* bot.py:350
CacheKey(a) == Md5(CardContent(a))

\* bot.py:351
CachePath(key) == [k |-> "path", key |-> key]

\* bot.py:418-427: the fill of the badge, Bronze's for a tier not in the table
RarityColor(tier) ==
  CASE tier = "Mythic" -> <<255, 0, 255>>
    [] tier = "Legendary" -> <<148, 0, 211>>
    [] tier = "Diamond" -> <<185, 242, 255>>
    [] tier = "Platinum" -> <<229, 228, 226>>
    [] tier = "Gold" -> <<255, 215, 0>>
    [] tier = "Silver" -> <<192, 192, 192>>
    [] OTHER -> <<205, 127, 50>>

\* bot.py:430
RarityText(tier) == <<tier, " Achievement">>

\* bot.py:357-443: the file the drawing saves; the avatar drawn is the
\* downloaded one, the grey disc of _download_avatar when the download failed,
\* or none when the event has no avatar url
CardFile(a, avatar_ok) ==
  [key |-> CacheKey(a), achievement_name |-> a.achievement_name, user_name |-> UserName(a),
   rarity_tier |-> a.rarity_tier,
   badge_text |-> RarityText(a.rarity_tier), badge_color |-> RarityColor(a.rarity_tier),
   avatar |-> IF a.user_avatar_url = <<>> THEN "none"
              ELSE IF avatar_ok THEN "downloaded" ELSE "default"]

\* bot.py:354, os.path.exists(cache_path)
Cached(cache, key) == \E f \in cache : f.key = key

\* ------------------------------------------------------------------- state
VARIABLES
  env,                    \* the process environment
  pc,                     \* where main()/run() stands
  now,                    \* wall clock, seconds since the process started
  poll_interval_minutes, max_posts_per_hour, max_posts_per_interval,
  min_rarity_tier,
  posts_this_hour, hour_reset_time,
  last_processed_id,
  cursor_file,            \* content of /tmp/achievement_cursor.txt
  achievements,           \* the batch fetched by the running cycle
  achievements_to_post,   \* the ranked, truncated selection of the cycle
  next_index,             \* position of the for loop of line 540
  posted_count,
  \* history, not read by the program
  cycles,                 \* cycles started
  fetch_ok,               \* the fetch of the running cycle got a response it could read
  cursor_before,          \* cursor when the running cycle started
  attempts,               \* results of the post_to_bluesky calls of the cycle
  last_call,              \* the call of post_to_bluesky the last step made, if any
  post_times,             \* the times of the successful sends of the last hour, in order
  window_log,             \* results of the calls since the last reset
  honoured,               \* every batch so far held only ids above since_id
  dropped,                \* ids left unattempted after a refusal, by finished cycles
  save_result,            \* how the _save_cursor call of the running cycle went
  published,              \* ids above the cursor that earlier cycles published
  capped,                 \* ids above the cursor that the cap of an earlier cycle left out
  republished,            \* ids published by a cycle after an earlier one published them
  published_late,         \* ids published by a cycle after the cap of an earlier one left them out
  \* one call of fetch_url_metadata
  meta_pc,                \* "attempt" in the loop of line 200, "returned" after it
  meta_attempt,           \* the loop variable of line 200
  meta_slept,             \* the seconds of the sleeps of line 296, in order
  meta_log,               \* what each attempt made came to
  meta_page,              \* what the last attempt met
  meta_result,            \* the value returned
  \* the card cache
  card_cache,             \* the files of /tmp/achievement_cards
  renders                 \* the calls of generate_achievement_card so far

config == <<env, poll_interval_minutes, max_posts_per_hour, max_posts_per_interval,
            min_rarity_tier>>
rate == <<posts_this_hour, hour_reset_time>>
cycle == <<achievements, achievements_to_post, next_index, posted_count>>
history == <<cycles, fetch_ok, cursor_before, attempts, last_call, post_times, window_log,
             honoured, dropped, save_result, published, capped, republished,
             published_late>>
metadata == <<meta_pc, meta_attempt, meta_slept, meta_log, meta_page, meta_result>>
cards == <<card_cache, renders>>
vars == <<config, pc, now, rate, last_processed_id, cursor_file, cycle, history, metadata,
          cards>>

\* the sends of a log that are less than one hour before t
WithinHour(log, t) == SelectSeq(log, LAMBDA at : at > t - HourSeconds)

\* the process before main() has built the bot
Started ==
  /\ pc = "start"
  /\ now = 0
  /\ poll_interval_minutes = 0 /\ max_posts_per_hour = 0 /\ max_posts_per_interval = 0
  /\ min_rarity_tier = ""
  /\ posts_this_hour = 0 /\ hour_reset_time = 0
  /\ last_processed_id = 0
  /\ achievements = <<>> /\ achievements_to_post = <<>>
  /\ next_index = 1 /\ posted_count = 0
  /\ cycles = 0 /\ fetch_ok = TRUE /\ cursor_before = 0
  /\ attempts = <<>> /\ last_call = NoCall /\ window_log = <<>>
  /\ post_times = <<>>
  /\ honoured = TRUE /\ dropped = {} /\ save_result = "none"
  /\ published = {} /\ capped = {} /\ republished = {} /\ published_late = {}
  /\ meta_pc = "attempt" /\ meta_attempt = 0 /\ meta_slept = <<>> /\ meta_log = <<>>
  /\ meta_page = NoPage /\ meta_result = NotReturned
  /\ card_cache = {} /\ renders = <<>>

Init ==
  /\ env \in RunEnvironments
  /\ cursor_file \in {NoFile}
  /\ Started

InitStartup ==
  /\ env \in Environments
  /\ cursor_file \in CursorFiles
  /\ Started

InitSelection ==
  /\ env \in SelectionEnvironments
  /\ cursor_file \in {NoFile}
  /\ Started

\* the poll interval is clamped to the minimum in place of the raise of line 48
ConfigInvalidClamps(e) ==
  LET poll == GetInt(e.poll, DefaultPollInterval)
      cap == GetInt(e.cap, DefaultMaxPostsPerHour)
  IN  \/ ~poll.ok
      \/ ~cap.ok
      \/ cap.v > MaxPostsPerHourLimit
      \/ (~e.user /\ ~e.did) \/ ~e.pass
      \/ SplitFeedIds(e.feeds) = <<"">>

\* bot.py:43-65: the checks of __init__ that raise ValueError
ConfigInvalid(e) ==
  LET poll == GetInt(e.poll, DefaultPollInterval)
      cap == GetInt(e.cap, DefaultMaxPostsPerHour)
  IN  \/ ~poll.ok
      \/ ~cap.ok
      \/ poll.v < MinPollInterval
      \/ cap.v > MaxPostsPerHourLimit
      \/ (~e.user /\ ~e.did) \/ ~e.pass
      \/ SplitFeedIds(e.feeds) = <<"">>

\* bot.py:35-98 and main(), bot.py:586-588: __init__ raises, or sets the fields
Construct ==
  /\ pc = "start"
  /\ IF ConfigInvalid(env)
       THEN /\ pc' = "config_error"
            /\ UNCHANGED <<env, poll_interval_minutes, max_posts_per_hour,
                           max_posts_per_interval, min_rarity_tier, rate,
                           last_processed_id>>
       ELSE LET poll == GetInt(env.poll, DefaultPollInterval).v
                cap == GetInt(env.cap, DefaultMaxPostsPerHour).v
            IN  /\ pc' = "constructed"
                /\ poll_interval_minutes' = poll
                /\ max_posts_per_hour' = cap
                /\ max_posts_per_interval' = MaxPostsPerInterval(cap, poll)
                /\ min_rarity_tier' = env.min_tier
                /\ posts_this_hour' = 0
                /\ hour_reset_time' = now + HourSeconds
                /\ last_processed_id' = LoadCursor(cursor_file)
                /\ UNCHANGED env
  /\ UNCHANGED <<now, cursor_file, metadata, cards, cycle, history>>

\* bot.py:118-128 with run(), bot.py:568: a failed login is re-raised and,
\* outside the try of the loop, ends run()
Authenticate ==
  /\ pc = "constructed"
  /\ \E ok \in BOOLEAN : pc' = IF ok THEN "fetch" ELSE "auth_error"
  /\ UNCHANGED <<config, now, rate, last_processed_id, cursor_file, metadata, cards, cycle, history>>

\* bot.py:525-537: fetch, filter, sort, truncate; the source answers with one
\* of responses, and limit cycles are explored
FetchFrom(responses, limit) ==
  /\ pc = "fetch"
  /\ cycles < limit
  /\ \E resp \in responses :
       LET batch == GetRecentAchievements(resp)
           eligible == Eligible(batch, min_rarity_tier)
       IN  /\ achievements' = batch
           /\ fetch_ok' = (resp.kind = "ok")
           /\ honoured' = (honoured /\ \A i \in 1..Len(batch) : batch[i].id > last_processed_id)
           /\ IF SortRaises(eligible)
                THEN /\ pc' = "backoff"
                     /\ achievements_to_post' = <<>>
                ELSE /\ achievements_to_post' =
                          Truncate(SortByRarity(eligible), max_posts_per_interval)
                     /\ pc' = IF achievements_to_post' = <<>> THEN "finish" ELSE "publish"
  /\ next_index' = 1
  /\ posted_count' = 0
  /\ cycles' = cycles + 1
  /\ cursor_before' = last_processed_id
  /\ attempts' = <<>>
  /\ last_call' = NoCall
  /\ UNCHANGED <<config, now, rate, last_processed_id, cursor_file, metadata, cards,
                 post_times, window_log, dropped, save_result, published, capped,
                 republished, published_late>>

Fetch == FetchFrom(Responses, MaxCycles)

\* the fetch of the only cycle of a run of one cycle
FetchSelection == FetchFrom(SelectionResponses, 1)

\* bot.py:540-551: one turn of the loop, with its call of post_to_bluesky
PublishNext ==
  /\ pc = "publish"
  /\ next_index <= Len(achievements_to_post)
  /\ LET a == achievements_to_post[next_index]
         log == IF now >= hour_reset_time THEN <<>> ELSE window_log
     IN  IF FormatRaises(a)
           THEN /\ pc' = "backoff"
                /\ last_call' = NoCall
                /\ UNCHANGED <<now, rate, next_index, posted_count, attempts, post_times,
                               window_log, republished, published_late>>
           ELSE \E card \in CardOutcomes, sent \in BOOLEAN :
                  LET r == PostToBluesky(posts_this_hour, hour_reset_time,
                                         max_posts_per_hour, now, card, sent)
                      go == LoopControl(r.result, next_index, Len(achievements_to_post))
                  IN  /\ posts_this_hour' = r.count
                      /\ hour_reset_time' = r.reset
                      /\ attempts' = Append(attempts, r.result)
                      /\ last_call' = r.call
                      /\ window_log' = Append(log, r.result)
                      /\ next_index' = go.next_index
                      /\ pc' = go.pc
                      /\ IF r.result = "posted"
                           THEN /\ post_times' = Append(WithinHour(post_times, now), now)
                                /\ posted_count' = posted_count + 1
                                /\ now' = now + PostDelaySeconds
                                /\ republished' = republished \cup ({a.id} \cap published)
                                /\ published_late' = published_late \cup ({a.id} \cap capped)
                           ELSE UNCHANGED <<post_times, posted_count, now, republished,
                                            published_late>>
  /\ UNCHANGED <<config, last_processed_id, cursor_file, metadata, cards, achievements,
                 achievements_to_post, cycles, fetch_ok, cursor_before, honoured, dropped,
                 save_result, published, capped>>

\* the events of the selection the loop never reached after a refusal
CutOff ==
  IF attempts # <<>> /\ attempts[Len(attempts)] = "refused"
    THEN { achievements_to_post[i].id :
             i \in (Len(attempts) + 1)..Len(achievements_to_post) }
    ELSE {}

\* _save_cursor lets its exception through
FinishSaveRaises ==
  /\ pc = "finish"
  /\ last_processed_id' = NewCursor(last_processed_id, achievements)
  /\ IF last_processed_id' # last_processed_id
       THEN \E outcome \in SaveOutcomes :
              /\ cursor_file' = SaveCursor(cursor_file, last_processed_id', outcome)
              /\ save_result' = outcome
              /\ pc' = IF outcome = "saved" THEN "sleep" ELSE "backoff"
       ELSE /\ UNCHANGED cursor_file
            /\ save_result' = "none"
            /\ pc' = "sleep"
  /\ dropped' = dropped \cup CutOff
  /\ last_call' = NoCall
  /\ UNCHANGED <<config, now, rate, cycle, cycles, fetch_ok, cursor_before, attempts,
                 post_times, window_log, honoured, metadata, cards, published, capped,
                 republished, published_late>>

\* bot.py:553-561 with _save_cursor, bot.py:110-116
Finish ==
  /\ pc = "finish"
  /\ last_processed_id' = NewCursor(last_processed_id, achievements)
  /\ IF last_processed_id' # last_processed_id
       THEN \E outcome \in SaveOutcomes :
              /\ cursor_file' = SaveCursor(cursor_file, last_processed_id', outcome)
              /\ save_result' = outcome
       ELSE /\ UNCHANGED cursor_file
            /\ save_result' = "none"
  /\ dropped' = dropped \cup CutOff
  /\ last_call' = NoCall
  /\ pc' = "sleep"
  /\ UNCHANGED <<config, now, rate, cycle, cycles, fetch_ok, cursor_before, attempts,
                 post_times, window_log, honoured, metadata, cards, published, capped,
                 republished, published_late>>

\* ids of the events of the fetched batch the filter of lines 527-531 left out
Ineligible ==
  { achievements[i].id : i \in { j \in 1..Len(achievements) :
      ~ShouldPostAchievement(achievements[j], min_rarity_tier) } }

\* ids of the events the running cycle has published
PostedIds ==
  { achievements_to_post[i].id : i \in { j \in 1..Len(attempts) : attempts[j] = "posted" } }

\* ids of the eligible events of the batch the slice of line 537 left out; the
\* slice is not reached when the sort of line 535 raises
LeftOut ==
  LET eligible == Eligible(achievements, min_rarity_tier)
  IN  IF SortRaises(eligible) THEN {}
      ELSE { eligible[i].id : i \in 1..Len(eligible) }
             \ { achievements_to_post[i].id : i \in 1..Len(achievements_to_post) }

\* of a set of ids, those a source that honours since_id can deliver again
AboveCursor(ids) == { id \in ids : id > last_processed_id }

\* process_achievements is left, by return or by an exception: its locals are gone
CycleOver ==
  /\ achievements' = <<>> /\ achievements_to_post' = <<>>
  /\ next_index' = 1 /\ posted_count' = 0
  /\ fetch_ok' = TRUE /\ cursor_before' = last_processed_id
  /\ attempts' = <<>> /\ last_call' = NoCall /\ save_result' = "none"
  /\ published' = AboveCursor(published \cup PostedIds)
  /\ capped' = AboveCursor(capped \cup LeftOut)
  /\ UNCHANGED <<cycles, post_times, window_log, honoured, dropped, republished,
                 published_late>>

\* bot.py:576
Sleep ==
  /\ pc = "sleep"
  /\ now' = now + poll_interval_minutes * 60
  /\ pc' = "fetch"
  /\ CycleOver
  /\ UNCHANGED <<config, rate, last_processed_id, cursor_file, metadata, cards>>

\* the handler waits the poll interval like a cycle that went well
BackoffPollInterval ==
  /\ pc = "backoff"
  /\ now' = now + poll_interval_minutes * 60
  /\ pc' = "fetch"
  /\ CycleOver
  /\ UNCHANGED <<config, rate, last_processed_id, cursor_file, metadata, cards>>

\* bot.py:581-584
Backoff ==
  /\ pc = "backoff"
  /\ now' = now + BackoffSeconds
  /\ pc' = "fetch"
  /\ CycleOver
  /\ UNCHANGED <<config, rate, last_processed_id, cursor_file, metadata, cards>>

\* bot.py:578-580
Stop ==
  /\ pc = "sleep"
  /\ pc' = "stopped"
  /\ UNCHANGED <<config, now, rate, last_processed_id, cursor_file, metadata, cards, cycle, history>>

\* bot.py:200-300: one turn of the loop of fetch_url_metadata
MetadataAttempt ==
  /\ meta_pc = "attempt"
  /\ meta_attempt < MaxRetries
  /\ \E page \in Pages \cup FailedLoads :
       /\ meta_page' = page
       /\ IF AttemptRaises(page)
            THEN /\ meta_log' = Append(meta_log, "failed")
                 /\ meta_slept' = meta_slept \o RetryWait(meta_attempt)
                 /\ meta_attempt' = meta_attempt + 1
                 /\ IF meta_attempt + 1 < MaxRetries
                      THEN /\ meta_pc' = "attempt"
                           /\ meta_result' = NotReturned
                      ELSE /\ meta_pc' = "returned"
                           /\ meta_result' = None
            ELSE /\ meta_log' = Append(meta_log, "succeeded")
                 /\ meta_result' = Metadata(page)
                 /\ meta_pc' = "returned"
                 /\ UNCHANGED <<meta_slept, meta_attempt>>
  /\ UNCHANGED <<config, pc, now, rate, last_processed_id, cursor_file, cycle, history,
                 cards>>

\* bot.py:340-447: one call of generate_achievement_card
GenerateAchievementCard ==
  /\ Len(renders) < MaxRenders
  /\ \E a \in CardEvents, avatar_ok \in BOOLEAN, saved \in BOOLEAN :
       LET key == CacheKey(a)
       IN  IF Cached(card_cache, key)
             THEN /\ renders' = Append(renders,
                        [event |-> a, key |-> key, downloaded |-> FALSE, drawn |-> FALSE,
                         result |-> CachePath(key)])
                  /\ UNCHANGED card_cache
             ELSE /\ renders' = Append(renders,
                        [event |-> a, key |-> key, downloaded |-> a.user_avatar_url # <<>>,
                         drawn |-> TRUE,
                         result |-> IF saved THEN CachePath(key) ELSE None])
                  /\ card_cache' =
                       IF saved THEN card_cache \cup {CardFile(a, avatar_ok)} ELSE card_cache
  /\ UNCHANGED <<config, pc, now, rate, last_processed_id, cursor_file, cycle, history,
                 metadata>>

Next == Construct \/ Authenticate \/ Fetch \/ PublishNext \/ Finish \/ Sleep \/ Backoff \/ Stop

Spec == Init /\ [][Next]_vars

\* startup alone, over every environment
NextStartup == Construct \/ Authenticate

SpecStartup == InitStartup /\ [][NextStartup]_vars

\* one cycle, over every minimum tier and every order of the batch
NextSelection ==
  Construct \/ Authenticate \/ FetchSelection \/ PublishNext \/ Finish \/ Backoff

SpecSelection == InitSelection /\ [][NextSelection]_vars

\* one call of fetch_url_metadata, over every page and every failure
InitMetadata ==
  /\ env \in SelectionEnvironments
  /\ env.min_tier = "Bronze"
  /\ cursor_file \in {NoFile}
  /\ Started

NextMetadata == MetadataAttempt

SpecMetadata == InitMetadata /\ [][NextMetadata]_vars

\* calls of generate_achievement_card, over every event and every outcome
NextCards == GenerateAchievementCard

SpecCards == InitMetadata /\ [][NextCards]_vars

TypeOK ==
  /\ pc \in {"start", "config_error", "constructed", "auth_error", "fetch", "publish",
             "finish", "sleep", "backoff", "stopped"}
  /\ posts_this_hour \in Nat
  /\ next_index \in 1..(Max(MaxBatch, MaxSelection) + 1)
  /\ Len(attempts) \in {next_index - 1, next_index}

\* ---------------------------------------------------------------- claims
Constructed == pc \notin {"start", "config_error"}

\* ids of the events the running cycle called post_to_bluesky for
AttemptedIds == { achievements_to_post[i].id : i \in 1..Len(attempts) }

\* successful sends whose time lies in [t, t + 1h)
PostsInHourFrom(t) ==
  Cardinality({ j \in 1..Len(post_times) : post_times[j] >= t /\ post_times[j] < t + HourSeconds })

PostedIn(log) == Cardinality({ i \in 1..Len(log) : log[i] = "posted" })

\* C1: when a cycle has run to its end, the cursor is the greater of the
\* cursor before the cycle and the greatest id of the fetched batch (the
\* cursor before the cycle when the batch is empty), whatever was attempted.
C1_CursorAfterCycle ==
  pc = "sleep" =>
    last_processed_id =
      IF achievements = <<>> THEN cursor_before
      ELSE Max(cursor_before, MaxId(achievements))

C1_Witness ==
  /\ pc = "sleep"
  /\ Len(achievements) = 2
  /\ MaxId(achievements) < cursor_before
  /\ attempts = <<"posted", "refused">>

\* C2: the cursor never decreases, and a cycle whose fetch failed has an
\* empty batch, raised nothing, attempted no publish and left the cursor alone.
C2_FailedFetch ==
  (cycles > 0 /\ ~fetch_ok) =>
    /\ achievements = <<>>
    /\ attempts = <<>>
    /\ pc # "backoff" /\ pc # "publish"
    /\ last_processed_id = cursor_before

C2_CursorNeverDecreases ==
  [](C2_FailedFetch) /\ [][last_processed_id' >= last_processed_id]_vars

C2_Witness ==
  /\ pc = "sleep"
  /\ ~fetch_ok
  /\ cursor_before > 0
  /\ last_processed_id = cursor_before

\* C3 as stated: over any span of 60 minutes the number of successful
\* publishes is at most max_posts_per_hour.
C3_AnyHourSpan ==
  \A i \in 1..Len(post_times) : PostsInHourFrom(post_times[i]) <= max_posts_per_hour

\* C3 amended: between two resets of the rate window the number of
\* successful publishes is at most max_posts_per_hour, and a span of 60
\* minutes, which can straddle one reset, holds at most twice that number.
C3_WindowBound ==
  /\ PostedIn(window_log) <= Max(0, max_posts_per_hour)
  /\ (now < hour_reset_time => posts_this_hour = PostedIn(window_log))
  /\ \A i \in 1..Len(post_times) :
       PostsInHourFrom(post_times[i]) <= 2 * Max(0, max_posts_per_hour)

C3_Witness ==
  /\ max_posts_per_hour = 1
  /\ Len(post_times) = 2
  /\ post_times[2] - post_times[1] < HourSeconds
  /\ window_log = <<"posted">>

\* C4: with an hourly cap N >= 1 and a destination that accepts every post,
\* the i-th publish attempt made inside one rate window is accepted exactly
\* when i <= N; the first attempt after the window has elapsed is attempt 1
\* of a new window, hence accepted.
C4_WindowResults ==
  (max_posts_per_hour >= 1 /\ \A i \in 1..Len(window_log) : window_log[i] # "failed") =>
    \A i \in 1..Len(window_log) : (window_log[i] = "posted") <=> (i <= max_posts_per_hour)

C4_Witness ==
  /\ max_posts_per_hour = 2
  /\ window_log = <<"posted", "posted", "refused">>

\* C5: the count goes back to 0 and the boundary moves, to now + 1h, exactly
\* in a rate check made at now >= boundary; no other step lowers the count or
\* moves the boundary.
C5_CheckAt(t) ==
  /\ (t >= hour_reset_time) =>
       /\ hour_reset_time' = t + HourSeconds
       /\ posts_this_hour' = IF attempts'[Len(attempts')] = "posted" THEN 1 ELSE 0
  /\ (t < hour_reset_time) =>
       /\ hour_reset_time' = hour_reset_time
       /\ posts_this_hour' >= posts_this_hour

C5_SlidingReset ==
  [][Constructed =>
       IF Len(attempts') > Len(attempts)
         THEN C5_CheckAt(now)
         ELSE hour_reset_time' = hour_reset_time /\ posts_this_hour' = posts_this_hour]_vars

C5_Witness ==
  /\ Constructed
  /\ hour_reset_time > HourSeconds
  /\ hour_reset_time % HourSeconds # 0
  /\ posts_this_hour = 0
  /\ window_log = <<"failed">>

\* C6: a refused publish attempt is the last attempt of its cycle.
C6_StopAfterRefusal ==
  \A i \in 1..Len(attempts) :
    attempts[i] = "refused" =>
      /\ i = Len(attempts)
      /\ pc \in {"finish", "sleep", "fetch", "stopped"}
      /\ posted_count = i - 1

C6_Witness ==
  /\ pc = "sleep"
  /\ attempts = <<"refused">>
  /\ Len(achievements_to_post) = 2

\* C7 as stated: the events a refusal cut off are still ahead of the cursor
\* when the cycle ends, so the next fetch asks for them again.
C7_RemainEligible ==
  pc = "sleep" => \A id \in CutOff : id > last_processed_id

\* C7 amended: the events a refusal cut off are skipped: the cursor is at or
\* past them when the cycle ends, and while the source returns only ids above
\* since_id no later cycle of the run attempts them.
C7_CutOffSkipped ==
  /\ pc = "sleep" => \A id \in CutOff : id <= last_processed_id
  /\ \A id \in dropped : id <= last_processed_id
  /\ honoured => AttemptedIds \cap dropped = {}

C7_Witness ==
  /\ honoured
  /\ dropped # {}
  /\ pc = "sleep"
  /\ CutOff = {}
  /\ attempts # <<>>

\* C8: a cycle selects and attempts at most max_posts_per_interval events,
\* whatever the earlier cycles left unused.
C8_IntervalCap ==
  Constructed =>
    /\ Len(achievements_to_post) <= max_posts_per_interval
    /\ Len(attempts) <= max_posts_per_interval

C8_Witness ==
  /\ cycles >= 2
  /\ post_times = <<>>
  /\ Len(Eligible(achievements, min_rarity_tier)) > max_posts_per_interval
  /\ Len(attempts) = max_posts_per_interval
  /\ max_posts_per_hour > max_posts_per_interval

\* C9: max_posts_per_interval is max(1, floor(cap / (60 / poll))) in real
\* numbers, that is max(1, floor(cap * poll / 60)).
C9_IntervalFormula ==
  Constructed =>
    max_posts_per_interval =
      Max(1, (max_posts_per_hour * poll_interval_minutes) \div 60)

\* C10: with a poll interval below 10, a cap above 60, no credentials or no
\* feed ids the bot is never constructed: nothing is authenticated, fetched
\* or published; a constructed bot holds the configured values unchanged.
C10_Rejected(e) ==
  \/ e.poll.k = "int" /\ e.poll.v < 10
  \/ e.cap.k = "int" /\ e.cap.v > 60
  \/ ~(e.user \/ e.did)
  \/ ~e.pass
  \/ e.feeds = ""

Selected == pc \in {"publish", "finish", "sleep"}

InSelection(a) == \E i \in 1..Len(achievements_to_post) : achievements_to_post[i] = a

\* rank of a tier in Bronze < Silver < ... < Mythic, counted from 0; a name
\* that is not in the order ranks as the lowest
C11_Rank(t) ==
  IF \E i \in DOMAIN TierNames : TierNames[i] = t
    THEN (CHOOSE i \in DOMAIN TierNames : TierNames[i] = t) - 1
    ELSE 0

C11_HasTier(a) == a.rarity_tier # TierNone /\ a.rarity_tier # ""

\* C11: an event is eligible exactly when it has a non-null, non-empty tier
\* whose rank is at least the rank of the minimum tier, an unknown name (of
\* the event or of the minimum) ranking lowest; and an eligible event stays
\* eligible under every tier of equal or higher rank.  Read off the selection
\* of a cycle whose per-interval cap does not truncate the batch.
C11_Eligibility ==
  (Selected /\ Len(achievements) <= max_posts_per_interval) =>
    \A i \in 1..Len(achievements) :
      LET a == achievements[i]
      IN  /\ InSelection(a) <=>
               (C11_HasTier(a) /\ C11_Rank(a.rarity_tier) >= C11_Rank(min_rarity_tier))
          /\ InSelection(a) =>
               \A t \in MinTierSettings \ {""} :
                 C11_Rank(t) >= C11_Rank(a.rarity_tier) =>
                   ShouldPostAchievement([a EXCEPT !.rarity_tier = t], min_rarity_tier)

C11_Witness ==
  /\ Selected
  /\ min_rarity_tier = "Shiny"
  /\ Len(achievements) = 3
  /\ Len(achievements_to_post) = 2
  /\ \E i \in 1..3 : achievements[i].rarity_tier = "Shiny" /\ InSelection(achievements[i])
  /\ \E i \in 1..3 : achievements[i].rarity_tier = TierNone

\* C12: an event without a tier is never selected, hence never published,
\* whatever the minimum tier; a cycle whose batch holds only such events makes
\* no publish attempt and ends with the cursor on the greatest of their ids.
C12_NoTier(a) == a.rarity_tier = TierNone

C12_NoTierNotPublished ==
  /\ \A i \in 1..Len(achievements_to_post) : ~C12_NoTier(achievements_to_post[i])
  /\ (achievements # <<>> /\ \A i \in 1..Len(achievements) : C12_NoTier(achievements[i])) =>
       /\ pc \in {"finish", "sleep"}
       /\ attempts = <<>> /\ posted_count = 0 /\ post_times = <<>>
       /\ pc = "sleep" =>
            last_processed_id = Max(cursor_before, MaxId(achievements))

C12_Witness ==
  /\ pc = "sleep"
  /\ min_rarity_tier = ""
  /\ Len(achievements) = 2
  /\ C12_NoTier(achievements[1]) /\ C12_NoTier(achievements[2])
  /\ achievements[1].rarity_percentage = 1
  /\ last_processed_id = achievements[1].id
  /\ cursor_before = 0

\* percentage of an event in the publish order, a missing one counting as 100
C13_Pct(a) == IF a.rarity_percentage = PctAbsent THEN 100 ELSE a.rarity_percentage

\* place of an event in the fetched batch
FetchPlace(a) == CHOOSE i \in 1..Len(achievements) : achievements[i] = a

\* a is ranked before b: lower percentage, or equal percentage and fetched first
C13_Before(a, b) ==
  \/ C13_Pct(a) < C13_Pct(b)
  \/ C13_Pct(a) = C13_Pct(b) /\ FetchPlace(a) < FetchPlace(b)

\* C13: the selection of a cycle, which the loop publishes front to back, is
\* the eligible events of the batch in ascending order of percentage (missing
\* = 100), events of equal percentage in their fetch order, cut to the
\* per-interval cap; the attempts of the cycle are its first events.
C13_PublishOrder ==
  Selected =>
    LET eligible == { achievements[i] : i \in { j \in 1..Len(achievements) :
                        ShouldPostAchievement(achievements[j], min_rarity_tier) } }
        n == Len(achievements_to_post)
    IN  /\ n = IF Cardinality(eligible) < max_posts_per_interval
                 THEN Cardinality(eligible) ELSE max_posts_per_interval
        /\ \A i \in 1..n : achievements_to_post[i] \in eligible
        /\ \A i, j \in 1..n :
             i < j => C13_Before(achievements_to_post[i], achievements_to_post[j])
        /\ \A b \in eligible :
             ~InSelection(b) => \A i \in 1..n : C13_Before(achievements_to_post[i], b)
        /\ Len(attempts) <= n
        /\ next_index \in {Len(attempts), Len(attempts) + 1}

C13_Witness ==
  /\ pc = "sleep"
  /\ Len(achievements) = 3
  /\ achievements[1].id = 6 /\ achievements[2].id = 2 /\ achievements[3].id = 1
  /\ Len(achievements_to_post) = 3
  /\ achievements_to_post[1].id = 2 /\ achievements_to_post[2].id = 1
  /\ attempts = <<"posted", "posted", "posted">>

\* the events of the batch the running cycle called post_to_bluesky for
Attempted == { achievements_to_post[i] : i \in 1..Len(attempts) }

\* C14: whatever stops a cycle short of its eligible events (the per-interval
\* cap, a refusal, a failed send, an exception), no event it attempted has a
\* higher percentage (missing = 100) than an eligible event it left out.
C14_RarestFirst ==
  pc \in {"publish", "finish", "sleep", "backoff"} =>
    \A a \in Attempted :
      \A i \in 1..Len(achievements) :
        LET b == achievements[i]
        IN  (ShouldPostAchievement(b, min_rarity_tier) /\ b \notin Attempted) =>
              C13_Pct(a) <= C13_Pct(b)

C14_Witness ==
  /\ pc = "sleep"
  /\ Len(achievements) = 3
  /\ achievements[1].id = 5 /\ achievements[2].id = 1 /\ achievements[3].id = 3
  /\ Len(achievements_to_post) = 2
  /\ attempts = <<"posted", "refused">>
  /\ Attempted = {achievements[3], achievements[2]}

\* the events the running cycle has published
Published == { achievements_to_post[i] : i \in { j \in 1..Len(attempts) : attempts[j] = "posted" } }

\* the batch of ids 1, 2, 3 with tiers Bronze, Bronze, Gold, met with cursor 0
\* and minimum tier Gold
C15_Scenario ==
  /\ min_rarity_tier = "Gold"
  /\ cursor_before = 0
  /\ Len(achievements) = 3
  /\ \A i \in 1..3 : achievements[i].id = i
  /\ achievements[1].rarity_tier = "Bronze" /\ achievements[2].rarity_tier = "Bronze"
  /\ achievements[3].rarity_tier = "Gold"

\* C15: every event a cycle publishes is an event of the batch the cycle
\* fetched and is eligible for the minimum tier; in the scenario the only
\* event attempted is id 3, it is published when the destination takes it,
\* and the cycle ends with the cursor at 3.
C15_PublishedFromBatch ==
  /\ \A a \in Published :
       /\ \E i \in 1..Len(achievements) : achievements[i] = a
       /\ C11_HasTier(a) /\ C11_Rank(a.rarity_tier) >= C11_Rank(min_rarity_tier)
  /\ Cardinality(Published) = posted_count
  /\ (C15_Scenario /\ pc = "sleep") =>
       /\ Len(attempts) = 1
       /\ Attempted = {achievements[3]}
       /\ attempts[1] \in {"posted", "failed"}
       /\ Published = IF attempts[1] = "posted" THEN {achievements[3]} ELSE {}
       /\ last_processed_id = 3

C15_Witness ==
  /\ C15_Scenario
  /\ pc = "sleep"
  /\ attempts = <<"posted">>
  /\ posted_count = 1
  /\ last_processed_id = 3

\* C16 as stated: a failed send does not end the loop of the cycle: when the
\* loop is over, a cycle with a failed send has attempted every selected event
\* unless a refusal of the hourly cap stopped it.
C16_FailureDoesNotAbort ==
  (pc \in {"finish", "sleep"} /\ \E i \in 1..Len(attempts) : attempts[i] = "failed") =>
    \/ Len(attempts) = Len(achievements_to_post)
    \/ attempts[Len(attempts)] = "refused"

\* C17 as stated: a failure of rendering or of upload inside a publish call
\* is reported as the return value false.
C17_FailureReturnsFalse ==
  last_call.card \in {"render_failed", "upload_failed"} =>
    attempts[Len(attempts)] # "posted"

\* C17 amended: a publish call never raises: the step of the call leaves the
\* loop going or over, never in the exception handler of run().  The call
\* returns false for a refusal and for a failed send; a card that cannot be
\* rendered or uploaded is caught inside and the post goes out without it, so
\* that the call returns true exactly when the send went through.
C17_NeverRaises ==
  /\ pc = "backoff" => last_call = NoCall
  /\ last_call # NoCall =>
       /\ pc \in {"publish", "finish"}
       /\ attempts # <<>>
       /\ attempts[Len(attempts)] = IF last_call.sent THEN "posted" ELSE "failed"

C17_Witness ==
  /\ last_call = Call("render_failed", TRUE)
  /\ attempts = <<"posted", "posted">>
  /\ pc = "finish"

\* C18: an exception raised by a step of a cycle (the sort, format_message,
\* the log line of the loop) takes run() to its handler and nowhere else; the
\* handler waits 60 seconds, not the poll interval, changes neither the
\* cursor nor the rate window, and the loop goes on with a fetch.
C18_ErrorBackoff ==
  [][/\ pc' = "backoff" => pc \in {"fetch", "publish"} /\ cycles' >= 1
     /\ pc = "backoff" =>
          /\ pc' = "fetch"
          /\ now' = now + 60
          /\ now' - now # poll_interval_minutes * 60
          /\ UNCHANGED <<last_processed_id, cursor_file, rate, config, cycles>>]_vars

C18_Witness ==
  /\ pc = "publish"
  /\ cycles = 2
  /\ now = 62
  /\ last_processed_id = 0
  /\ posts_this_hour = 1

\* the process has left run()
Terminated == pc \in {"config_error", "auth_error", "stopped"}

\* C19 as stated: the run ends only by a configuration error at startup or by
\* the stop signal; every other exception, authentication included, leads to
\* the backoff and a further cycle.
C19_EndsOnlyByConfigOrStop ==
  Terminated => pc \in {"config_error", "stopped"}

\* C20 as stated: a cycle whose batch is not empty and reaches above the
\* cursor ends, however it ends, with the cursor strictly greater and saved.
C20_ForwardProgress ==
  (/\ pc \in {"sleep", "backoff"}
   /\ achievements # <<>>
   /\ MaxId(achievements) > cursor_before) =>
    /\ last_processed_id > cursor_before
    /\ cursor_file = Stored(last_processed_id)

\* C21: a missing or null optional field (rarity_tier, rarity_percentage,
\* user_display_name, user_avatar_url, share_url) never makes the cycle fail: a
\* cycle that raises past the fetch holds an event without its required handle
C21_OptionalFieldsDefaulted ==
  pc = "backoff" /\ achievements # <<>> =>
    \E i \in 1..Len(achievements) : ~achievements[i].handle

\* C22: an event that was not eligible when fetched is handled by one cycle
\* only: when its cycle is over, by return or by an exception, the cursor is
\* at or past it, so that a source honouring since_id never delivers it again
C22_IneligibleHandledOnce ==
  pc \in {"sleep", "backoff"} => \A id \in Ineligible : id <= last_processed_id

\* the destinations the environment configures (config_server.py:384-390) and
\* the publishers process_achievements calls for an event (bot.py:545)
ConfiguredDestinations(e) ==
  (IF (e.user \/ e.did) /\ e.pass THEN {"bluesky"} ELSE {})
    \cup (IF e.discord THEN {"discord"} ELSE {})

PublishersCalled == {"bluesky"}

\* C23: with several destinations configured, the failure of one does not keep
\* the others from being attempted for the same event
C23_OtherDestinationsAttempted ==
  (last_call # NoCall /\ ~last_call.sent) =>
    ConfiguredDestinations(env) \subseteq PublishersCalled

C24_Failures == Cardinality({ i \in 1..Len(meta_log) : meta_log[i] = "failed" })

\* C24: fetch_url_metadata makes three attempts at most and none after a
\* success; it has slept 1 s after the first failure and 2 s after the second
\* and nothing after the third; it returns at the first success or after the
\* third failure, and not before
C24_RetrySchedule ==
  /\ Len(meta_log) <= 3
  /\ \A i \in 1..(Len(meta_log) - 1) : meta_log[i] = "failed"
  /\ meta_slept = SubSeq(<<1, 2>>, 1, IF C24_Failures < 2 THEN C24_Failures ELSE 2)
  /\ meta_pc = "returned" <=>
       (C24_Failures = 3 \/ (meta_log # <<>> /\ meta_log[Len(meta_log)] = "succeeded"))

C24_Witness ==
  /\ meta_pc = "returned"
  /\ meta_log = <<"failed", "failed", "failed">>
  /\ meta_slept = <<1, 2>>

C25_ImageFailed == meta_page.load = "loaded" /\ meta_page.image \in {"download_failed", "upload_failed"}

\* C25: fetch_url_metadata returns None only after three failed attempts and
\* otherwise a metadata record; an attempt whose page loaded and whose image
\* could not be downloaded or uploaded is not a failed one: the call returns
\* from it with a title, a description and no image
C25_NoneAfterThreeFailures ==
  /\ meta_result = None => meta_log = <<"failed", "failed", "failed">>
  /\ meta_pc = "returned" => (meta_result = None \/ meta_result.k = "metadata")
  /\ C25_ImageFailed =>
       /\ meta_pc = "returned"
       /\ meta_log[Len(meta_log)] = "succeeded"
       /\ meta_result.k = "metadata"
       /\ meta_result.title # <<>> /\ meta_result.description # <<>>
       /\ meta_result.image_blob = None

C25_Witness ==
  /\ meta_pc = "returned"
  /\ meta_log = <<"failed", "succeeded">>
  /\ meta_page.load = "loaded" /\ meta_page.image = "upload_failed"
  /\ meta_result.k = "metadata" /\ meta_result.image_blob = None

C26_Blank(text) == \A i \in 1..Len(text) : text[i] \in Whitespace

C26_Written(text, c) == text # <<>> /\ \A i \in 1..Len(text) : text[i] = c

C26_Field(text, structured, plain, default, c, d) ==
  /\ text # <<>>
  /\ Len(text) <= 300
  /\ IF ~C26_Blank(structured) THEN C26_Written(text, c)
     ELSE IF ~C26_Blank(plain) THEN C26_Written(text, d)
     ELSE text = default

\* C26: when the page loads, the title and the description returned are not
\* empty and at most 300 characters long, and each comes from the og tag when
\* that is not blank, else from the plain tag when that is not blank, else is
\* the default "Achievement Unlocked" / "View this achievement on Feedmaster"
C26_TitleAndDescription ==
  (meta_pc = "returned" /\ meta_page.load = "loaded") =>
    /\ C26_Field(meta_result.title, meta_page.og_title, meta_page.title_tag,
                 <<"A", "c", "h", "i", "e", "v", "e", "m", "e", "n", "t", " ",
                   "U", "n", "l", "o", "c", "k", "e", "d">>, "T", "t")
    /\ C26_Field(meta_result.description, meta_page.og_description, meta_page.desc_tag,
                 DefaultDescription, "D", "d")
    /\ Len(DefaultDescription) = 35

\* a blank og:title over a title tag of 301 characters, and no description
C26_Witness ==
  /\ meta_pc = "returned"
  /\ meta_page.load = "loaded"
  /\ meta_page.og_title = <<" ">>
  /\ Len(meta_page.title_tag) = 301
  /\ meta_page.og_description = <<>> /\ meta_page.desc_tag = <<" ">>
  /\ Len(meta_result.title) = 300
  /\ meta_result.description = DefaultDescription

C27_SameInputs(a, b) ==
  /\ a.user_avatar_url = b.user_avatar_url
  /\ a.achievement_name = b.achievement_name
  /\ UserName(a) = UserName(b)

\* C27: rendering is idempotent on its key: of two renders with the same avatar
\* url, achievement name and user name the second has the key of the first
\* and, when the first gave a file, gives that file and downloads and draws
\* nothing; two renders that differ in the achievement name have different keys
C27_RenderIdempotent ==
  \A i \in 1..Len(renders) : \A j \in (i + 1)..Len(renders) :
    /\ C27_SameInputs(renders[i].event, renders[j].event) =>
         /\ renders[j].key = renders[i].key
         /\ renders[i].result # None =>
              /\ renders[j].result = renders[i].result
              /\ ~renders[j].downloaded /\ ~renders[j].drawn
    /\ renders[i].event.achievement_name # renders[j].event.achievement_name =>
         renders[j].key # renders[i].key

\* the cursor files of CursorFiles that hold an integer, with that integer
C28_Held(file) ==
  CASE file = TextFile(<<"2">>) -> 2
    [] file = TextFile(<<" ", "4", "2", "\n">>) -> 42
    [] file = TextFile(<<"0", "7">>) -> 7
    [] file = TextFile(<<"-", "5">>) -> 0 - 5
    [] OTHER -> 0

\* C28: loading the cursor never raises: construction fails on the
\* configuration only, and the cursor of the constructed bot is the integer the
\* file holds, 0 when the file is absent, unreadable or holds no integer
C28_LoadNeverRaises ==
  /\ pc = "config_error" => ConfigInvalid(env)
  /\ Constructed => last_processed_id = C28_Held(cursor_file)

C28_Witness ==
  /\ pc = "constructed"
  /\ cursor_file = TextFile(<<"3", "x">>)
  /\ last_processed_id = 0

C29_SaveFailed == save_result \in {"open_failed", "write_failed"}

\* C29: a failed save of the cursor is not fatal: the cycle ends as a completed
\* one, the cursor in memory is the advanced one while the file is behind it,
\* and the since_id a cycle fetches with is the cursor in memory
C29_SaveFailureNonFatal ==
  /\ C29_SaveFailed =>
       /\ pc \in {"sleep", "stopped"}
       /\ last_processed_id = MaxId(achievements)
       /\ last_processed_id > cursor_before
       /\ LoadCursor(cursor_file) < last_processed_id
  /\ pc \in {"publish", "finish", "backoff"} => cursor_before = last_processed_id

\* a cycle that runs on the advanced cursor while the file is behind it
C29_Witness ==
  /\ pc = "publish"
  /\ cycles >= 2
  /\ LoadCursor(cursor_file) < cursor_before
  /\ honoured
  /\ achievements # <<>>

\* C30: the cursor is flushed by the cycle that changes it: after a completed
\* cycle whose save succeeded the file reads back as the cursor in memory, a
\* completed cycle that saved nothing left the cursor as it was, and the file
\* never reads back above the cursor in memory
C30_PersistedCursor ==
  /\ Constructed => LoadCursor(cursor_file) <= last_processed_id
  /\ (pc = "sleep" /\ save_result = "saved") =>
       LoadCursor(cursor_file) = last_processed_id
  /\ (pc = "sleep" /\ save_result = "none") => last_processed_id = cursor_before

C30_Witness ==
  /\ pc = "sleep"
  /\ save_result = "saved"
  /\ cycles >= 2
  /\ cursor_before > 0
  /\ last_processed_id > cursor_before

\* C31: as long as every batch held only ids above the since_id of its fetch, no
\* event is published by two cycles of one run, a cycle re-run after the error
\* backoff included
C31_PublishedOnce == honoured => republished = {}

\* C33: as long as every batch held only ids above the since_id of its fetch, an
\* eligible event that the per-interval cap left out of a cycle is published
\* by no later cycle
C33_CappedNeverPublished == honoured => published_late = {}

\* a call of post_to_bluesky is made by the step
C32_Called == Len(attempts') = Len(attempts) + 1

C32_Sent == IF attempts'[Len(attempts')] = "posted" THEN 1 ELSE 0

C32_CountInWindow == IF now >= hour_reset_time THEN 0 ELSE posts_this_hour

C35_CardFailureStillPublishes ==
  last_call.card \in {"render_failed", "upload_failed"} =>
    /\ Embed(last_call.card) = "none"
    /\ attempts # <<>>
    /\ attempts[Len(attempts)] = (IF last_call.sent THEN "posted" ELSE "failed")
    /\ last_call.sent =>
         /\ posted_count = Len(attempts)
         /\ posts_this_hour >= 1
         /\ post_times # <<>> /\ post_times[Len(post_times)] = now - PostDelaySeconds

C35_Witness ==
  /\ last_call = Call("render_failed", TRUE)
  /\ attempts = <<"posted", "posted">>
  /\ posts_this_hour = 2

\* the file a render returned
C34_Card(r) == CHOOSE f \in card_cache : f.key = r.key

\* C34: the card a render returns shows the tier of the event it was asked
\* for, in the badge text and in the badge colour (Bronze's for a tier that is
\* not in the table), whether it was drawn or taken from the cache
C34_CardShowsOwnTier ==
  \A i \in 1..Len(renders) :
    renders[i].result # None =>
      /\ C34_Card(renders[i]).badge_text = <<renders[i].event.rarity_tier, " Achievement">>
      /\ C34_Card(renders[i]).badge_color =
           (IF renders[i].event.rarity_tier = "Gold" THEN <<255, 215, 0>>
            ELSE <<205, 127, 50>>)

====
